---- MODULE Spec2Model ----
(***************************************************************************)
(* cache-pkgs: caches an output directory keyed by the SHA-1 of a          *)
(* dependency specification file (src/main.go).                            *)
(*                                                                         *)
(* The model is the filesystem the command works on (the candidate cache   *)
(* roots, the entries of the cache root, the output paths) and, for each   *)
(* invocation, the position in main() together with its flags, arguments   *)
(* and local variables.  src/main.go holds two programs: the main() of     *)
(* line 61 and the main() of line 320, which differ in where the check of  *)
(* flag.NArg() stands; an invocation runs one of the two (arg.prog).       *)
(*                                                                         *)
(* Three specifications: Spec runs invocations one after the other; in     *)
(* SpecRace two invocations run at once; SpecCacheDir calls cacheDir on    *)
(* its own, with an empty and a non-empty dirName.                         *)
(*                                                                         *)
(* Environment assumptions, stated once:                                   *)
(*  - output paths lie outside the cache root;                             *)
(*  - the external command only writes at the output path: it fails, or it *)
(*    exits 0 having put a directory there;                                *)
(*  - a system call may fail for a reason of the environment (io = "err"); *)
(*    the invocation that saw such a failure is marked hist.faulted.       *)
(***************************************************************************)
EXTENDS Integers, Sequences, FiniteSets, TLC

\* ---------------------------------------------------------------- bounds
NumContents == 2      \* distinct spec-file contents
MaxFiles == 1         \* files a generated directory can hold

Contents == 1..NumContents
OutPaths == {"out", "out2"}   \* the output paths invocations are given
Files == 1..MaxFiles
Procs == {1, 2}       \* invocations that can be alive at once
\* Invocations alive at once are given output paths of their own.
OutPathOf(p) == IF p = 1 THEN "out" ELSE "out2"

\* ------------------------------------------------------------ filesystem
\* A directory entry: nothing, a regular file, a directory with a set of
\* files (NestedDir marks a sub-directory made by cp -R into an existing
\* directory), or a symbolic link to the cache entry of a key.
NoKey == <<>>
NestedDir == MaxFiles + 1
Absent == [kind |-> "absent", tree |-> {}, target |-> NoKey]
RegFile == [kind |-> "file", tree |-> {}, target |-> NoKey]
Dir(t) == [kind |-> "dir", tree |-> t, target |-> NoKey]
Link(k) == [kind |-> "link", tree |-> {}, target |-> k]

\* The candidate cache roots of cacheDir.
HomeDepCache == "/home/u/.dep-cache"
EnvDir == "/env/cache"
ExplicitDir == "/explicit"
CacheDirs == {HomeDepCache, EnvDir, ExplicitDir}

\* Spec files: file 0 does not exist; file i (i >= 1) exists, and the files
\* i and i + NumContents hold the same bytes.
SpecFiles == 0..(NumContents + 1)
fileContent(f) == ((f - 1) % NumContents) + 1

\* crypto/sha1 of a content, hex encoded: a function of the content alone,
\* taken to be collision free.
sha1Hex(c) == <<"sha1", c>>
Keys == {sha1Hex(c) : c \in Contents}

IOResults == {"ok", "err"}

VARIABLES
  envCACHE_DIR,   \* os.Getenv("CACHE_DIR")
  dirs,           \* [CacheDirs -> {"absent", "dir", "file"}]
  cache,          \* [Keys -> entry]: the entries of the cache root main() resolves
  out,            \* [OutPaths -> entry]
  pc,             \* [Procs -> statement of main() the invocation stands at]
  arg,            \* [Procs -> flags and positional arguments]
  loc,            \* [Procs -> local variables of main()]
  hist,           \* [Procs -> history of the invocation: snapshot at start, steps taken]
  gen,            \* [Keys -> what the external command last generated for the key]
  call            \* a call of cacheDir on its own: arguments and results

vars == <<envCACHE_DIR, dirs, cache, out, pc, arg, loc, hist, gen, call>>
fsvars == <<envCACHE_DIR, dirs, cache, out>>

NoArg == [prog |-> 1, clean |-> FALSE, force |-> FALSE, symlink |-> TRUE,
          nargs |-> 0, depDesc |-> 0, outputdir |-> ""]
NoLoc == [cacheStore |-> "", h |-> NoKey, cached |-> FALSE, exit |-> -1]
NoHist == [dirs0 |-> [d \in CacheDirs |-> "absent"], cache0 |-> [k \in Keys |-> Absent],
           out0 |-> [o \in OutPaths |-> Absent], trace |-> <<>>, faulted |-> FALSE,
           cmdFailed |-> FALSE, afterClean |-> FALSE, wiped |-> {}]
\* Nothing archived for a key since the cache was last wiped ("none");
\* otherwise ("cached") the tree the command generated and Copy archived.
NoGen == [state |-> "none", tree |-> {}]
NoCall == [dirName |-> "", dirs0 |-> [d \in CacheDirs |-> "absent"], dir |-> "",
           err |-> FALSE, fault |-> FALSE, done |-> FALSE]

\* ------------------------------------------------------------- os.Stat
\* os.Stat follows symbolic links: a link whose target is gone reports
\* ENOENT.  c is the cache the link targets are looked up in.
Stat(node, c, io) ==
  IF io = "err" THEN "EIO"
  ELSE IF node.kind = "absent" THEN "ENOENT"
  ELSE IF node.kind = "link"
       THEN (IF c[node.target].kind = "absent" THEN "ENOENT" ELSE c[node.target].kind)
  ELSE node.kind

\* ------------------------------------------------------------ cacheDir
\* The path cacheDir settles on: `dir` is the named result, "" at entry.
cacheDirPath(dirName, env) ==
  LET d1 == IF dirName = "" THEN dirName ELSE ""
      d2 == IF d1 = "" THEN env ELSE d1
  IN  IF d2 = "" THEN HomeDepCache ELSE d2

\* ensureDir(dir): [err, kind], kind the kind of dir afterwards.
ensureDir(kind, io) ==
  IF kind = "absent"
  THEN (IF io = "ok" THEN [err |-> FALSE, kind |-> "dir"]      \* os.MkdirAll
        ELSE [err |-> TRUE, kind |-> "absent"])
  ELSE IF io = "err" THEN [err |-> TRUE, kind |-> kind]        \* os.Stat failed
  ELSE IF kind # "dir" THEN [err |-> TRUE, kind |-> kind]
  ELSE [err |-> FALSE, kind |-> kind]

\* cacheDir(dirName): [dir, err, dirs].
cacheDir(dirName, env, ds, io) ==
  LET dir == cacheDirPath(dirName, env)
      e == ensureDir(ds[dir], io)
  IN  [dir |-> IF e.err THEN "" ELSE dir, err |-> e.err,
       dirs |-> [ds EXCEPT ![dir] = e.kind]]

\* ------------------------------------------------------------ hashFile
hashFile(fname) ==
  IF fname = 0 THEN [hash |-> NoKey, err |-> TRUE]             \* os.Open fails
  ELSE [hash |-> sha1Hex(fileContent(fname)), err |-> FALSE]

\* ---------------------------------------------------------------- exits
\* exitWith: os.Exit(1).  A return from main(): exit status 0.
exitWith(p) ==
  /\ pc' = [pc EXCEPT ![p] = "exited"]
  /\ loc' = [loc EXCEPT ![p].exit = 1]

Step(p, name, fault) ==
  hist' = [hist EXCEPT ![p].trace = Append(@, name),
                       ![p].faulted = @ \/ fault]

\* ------------------------------------------------------------- main()
\* Order of the first statements of the two programs.
main_entry == "cacheDir"
main2_entry == "nargs"
main_afterCacheDir(clean) == IF clean THEN "clean" ELSE "nargs"
main2_afterCacheDir(clean) == IF clean THEN "clean" ELSE "hashFile"
main_afterNArg == "hashFile"
main2_afterNArg == "cacheDir"

\* flag.Parse(): a new invocation, once the previous one has exited.
\* What a run never reads is given one value: -f and -symlink when there
\* are too few arguments or -clean, the spec file with -clean.  The second
\* program, which differs from the first in the place of the flag.NArg()
\* test alone, is given the first spec file.
Args ==
  { a \in [prog : {1, 2}, clean : BOOLEAN, force : BOOLEAN, symlink : BOOLEAN,
           nargs : {0, 3}, depDesc : SpecFiles, outputdir : OutPaths \cup {""}] :
      /\ (a.clean \/ a.nargs < 3) => (~a.force /\ a.symlink)
      /\ ((a.clean \/ a.prog = 2) /\ a.nargs >= 3) => a.depDesc = 1
      /\ IF a.nargs < 3 THEN a.depDesc = 0 /\ a.outputdir = ""
         ELSE a.outputdir \in OutPaths }

main_flagParse(p) ==
  /\ pc[p] = "idle"
  /\ \E a \in Args :
       /\ a.outputdir \in {"", OutPathOf(p)}
       /\ arg' = [arg EXCEPT ![p] = a]
       /\ pc' = [pc EXCEPT ![p] = IF a.prog = 1 THEN main_entry ELSE main2_entry]
  /\ loc' = [loc EXCEPT ![p] = NoLoc]
  /\ hist' = [hist EXCEPT ![p] =
                [NoHist EXCEPT !.dirs0 = dirs, !.cache0 = cache, !.out0 = out,
                               !.afterClean = hist[p].afterClean,
                               !.wiped = hist[p].wiped]]
  /\ UNCHANGED <<fsvars, gen, call>>

\* The process is gone: nothing of the invocation is left but whether it
\* was a -clean that exited 0, and the keys whose entries it wiped (what
\* the next invocation follows).
processExit(p) ==
  /\ pc[p] = "exited"
  /\ pc' = [pc EXCEPT ![p] = "idle"]
  /\ arg' = [arg EXCEPT ![p] = NoArg]
  /\ loc' = [loc EXCEPT ![p] = NoLoc]
  /\ hist' = [hist EXCEPT ![p] =
                IF arg[p].clean /\ loc[p].exit = 0
                THEN [NoHist EXCEPT !.afterClean = TRUE,
                                    !.wiped = {k \in Keys : hist[p].cache0[k].kind = "dir"}]
                ELSE NoHist]
  /\ UNCHANGED <<fsvars, gen, call>>

\* cacheStore, err := cacheDir("")
main_cacheDir(p) ==
  /\ pc[p] = "cacheDir"
  /\ \E io \in IOResults :
       LET r == cacheDir("", envCACHE_DIR, dirs, io) IN
       /\ dirs' = r.dirs
       /\ Step(p, "cacheDir", io = "err")
       /\ IF r.err
          THEN exitWith(p)
          ELSE /\ loc' = [loc EXCEPT ![p].cacheStore = r.dir]
               /\ pc' = [pc EXCEPT ![p] =
                           IF arg[p].prog = 1 THEN main_afterCacheDir(arg[p].clean)
                           ELSE main2_afterCacheDir(arg[p].clean)]
  /\ UNCHANGED <<envCACHE_DIR, cache, out, arg, gen, call>>

\* Mutant: the return without the os.RemoveAll.
main_clean_nothingRemoved(p) ==
  /\ pc[p] = "clean"
  /\ Step(p, "clean", FALSE)
  /\ pc' = [pc EXCEPT ![p] = "exited"]
  /\ loc' = [loc EXCEPT ![p].exit = 0]
  /\ UNCHANGED <<fsvars, arg, gen, call>>

\* if *clean { os.RemoveAll(cacheStore); return }
main_clean(p) ==
  /\ pc[p] = "clean"
  /\ \E io \in IOResults :
       /\ Step(p, "clean", io = "err")
       /\ IF io = "err"
          THEN /\ exitWith(p)
               /\ UNCHANGED <<dirs, cache, gen>>
          ELSE /\ dirs' = [dirs EXCEPT ![loc[p].cacheStore] = "absent"]
               /\ cache' = [k \in Keys |-> Absent]
               /\ gen' = [k \in Keys |-> NoGen]
               /\ pc' = [pc EXCEPT ![p] = "exited"]
               /\ loc' = [loc EXCEPT ![p].exit = 0]
  /\ UNCHANGED <<envCACHE_DIR, out, arg, call>>

\* if flag.NArg() < 3 { exitUsage(...) }
main_nargs(p) ==
  /\ pc[p] = "nargs"
  /\ Step(p, "nargs", FALSE)
  /\ IF arg[p].nargs < 3
     THEN exitWith(p)
     ELSE /\ pc' = [pc EXCEPT ![p] =
                      IF arg[p].prog = 1 THEN main_afterNArg ELSE main2_afterNArg]
          /\ UNCHANGED loc
  /\ UNCHANGED <<fsvars, arg, gen, call>>

\* Mutant: the pre build block left out, the probe right after the hash.
main_hashFile_guardSkipped(p) ==
  /\ pc[p] = "hashFile"
  /\ LET r == hashFile(arg[p].depDesc) IN
       /\ Step(p, "hashFile", FALSE)
       /\ IF r.err
          THEN exitWith(p)
          ELSE /\ loc' = [loc EXCEPT ![p].h = r.hash]
               /\ pc' = [pc EXCEPT ![p] = "IsDir"]
  /\ UNCHANGED <<fsvars, arg, gen, call>>

\* h, err := hashFile(depDesc); depDir := path.Join(cacheStore, h)
main_hashFile(p) ==
  /\ pc[p] = "hashFile"
  /\ LET r == hashFile(arg[p].depDesc) IN
       /\ Step(p, "hashFile", FALSE)
       /\ IF r.err
          THEN exitWith(p)
          ELSE /\ loc' = [loc EXCEPT ![p].h = r.hash]
               /\ pc' = [pc EXCEPT ![p] = "guard"]
  /\ UNCHANGED <<fsvars, arg, gen, call>>

\* -------------------------------------------------- paths and the tree
\* The filesystem as the operations below see it.
FS == [dirs |-> dirs, cache |-> cache, out |-> out]
OutPath(o) == [at |-> "out", root |-> "", id |-> o]
\* path.Join(cacheStore, h)
depDir(cacheStore, h) == [at |-> "cache", root |-> cacheStore, id |-> h]

\* What a path names (os.Lstat).
Read(fs, path) ==
  IF path.at = "out" THEN fs.out[path.id]
  ELSE IF fs.dirs[path.root] = "dir" THEN fs.cache[path.id]
  ELSE Absent

Write(fs, path, node) ==
  IF path.at = "out" THEN [fs EXCEPT !.out[path.id] = node]
  ELSE [fs EXCEPT !.cache[path.id] = node]

\* ---------------------------------------------------------------- IsDir
\* Mutant: the result of info.IsDir() negated.
IsDir_negated(st) ==
  IF st = "ENOENT" THEN [ok |-> FALSE, err |-> FALSE]
  ELSE IF st = "EIO" THEN [ok |-> FALSE, err |-> TRUE]
  ELSE [ok |-> (st # "dir"), err |-> FALSE]

\* Mutant: every error of os.Stat taken for os.IsNotExist.
IsDir_errorSwallowed(st) ==
  IF st \in {"ENOENT", "EIO"} THEN [ok |-> FALSE, err |-> FALSE]
  ELSE [ok |-> (st = "dir"), err |-> FALSE]

\* IsDir(d), st the outcome of os.Stat(d): [ok, err].
IsDir(st) ==
  IF st = "ENOENT" THEN [ok |-> FALSE, err |-> FALSE]
  ELSE IF st = "EIO" THEN [ok |-> FALSE, err |-> TRUE]
  ELSE [ok |-> (st = "dir"), err |-> FALSE]

\* ----------------------------------------------------------------- Copy
\* What an interrupted or failed cp -R can leave of a copy of src.
PartialCopies(src) ==
  IF src.kind = "dir"
  THEN {Absent} \cup {Dir(s) : s \in (SUBSET src.tree) \ {src.tree}}
  ELSE {Absent}

\* `cp -R a b`: the set of outcomes [err, fs, fault], err its exit status.
\*  - b does not exist: b becomes a copy of a (a link is copied as a link);
\*  - b is a link to nothing: cp cannot create b;
\*  - b is a directory (or a link to one): a is copied into b;
\*  - b is a file: a directory cannot replace it.
\* cp can also fail part way (fault), leaving a part of the copy.
cpR(fs, a, b) ==
  LET src == Read(fs, a)
      dst == Read(fs, b)
      st == Stat(dst, fs.cache, "ok")
      parentOK == (b.at = "out") \/ (fs.dirs[b.root] = "dir")
      failed == {[err |-> TRUE, fs |-> fs, fault |-> FALSE]}
      \* the directory b names, when b is a link to a directory
      into == IF dst.kind = "link" THEN [at |-> "cache", root |-> b.root, id |-> dst.target]
              ELSE b
  IN  IF src.kind = "absent" \/ ~parentOK THEN failed
      ELSE IF dst.kind = "absent"
      THEN {[err |-> FALSE, fs |-> Write(fs, b, src), fault |-> FALSE]}
           \cup {[err |-> TRUE, fs |-> Write(fs, b, n), fault |-> TRUE] :
                   n \in PartialCopies(src)}
      ELSE IF st = "ENOENT" THEN failed
      ELSE IF st = "dir"
      THEN {[err |-> FALSE,
             fs |-> Write(fs, into, Dir(Read(fs, into).tree \cup {NestedDir})),
             fault |-> FALSE],
            [err |-> TRUE, fs |-> fs, fault |-> TRUE]}
      ELSE IF src.kind = "dir" THEN failed
      ELSE {[err |-> FALSE, fs |-> fs, fault |-> FALSE]}

\* Mutant: cp without -R semantics, the directory made and nothing put in it.
Copy_notRecursive(fs, a, b) ==
  IF Read(fs, a).kind = "dir" /\ Read(fs, b).kind = "absent"
  THEN {[err |-> FALSE, fs |-> Write(fs, b, Dir({})), fault |-> FALSE]}
  ELSE cpR(fs, a, b)

\* Mutant: the exit status of cp dropped.
Copy_errorDropped(fs, a, b) == {[r EXCEPT !.err = FALSE] : r \in cpR(fs, a, b)}

\* Copy(a, b): return run("cp", "-R", a, b)
Copy(fs, a, b) == cpR(fs, a, b)

\* -------------------------------------------------------------- Install
\* os.Symlink(from, to): EEXIST when anything is at `to`.
Symlink(fs, from, to) ==
  IF Read(fs, to).kind # "absent"
  THEN {[err |-> TRUE, fs |-> fs, fault |-> FALSE]}
  ELSE {[err |-> FALSE, fs |-> Write(fs, to, Link(from.id)), fault |-> FALSE]}

\* Mutant: the test of `link` inverted.
Install_linkInverted(fs, from, to, link, io) ==
  IF io = "err" THEN {[err |-> TRUE, fs |-> fs, fault |-> TRUE]}
  ELSE IF ~link THEN Symlink(fs, from, to)
  ELSE Copy(fs, from, to)

\* Mutant: the entry moved to the output path (a rename) where it is copied.
Install_renamed(fs, from, to, link, io) ==
  IF io = "err" THEN {[err |-> TRUE, fs |-> fs, fault |-> TRUE]}
  ELSE IF link THEN Symlink(fs, from, to)
  ELSE IF Read(fs, to).kind = "absent"
       THEN {[err |-> FALSE, fs |-> Write(Write(fs, to, Read(fs, from)), from, Absent),
              fault |-> FALSE]}
       ELSE Copy(fs, from, to)

\* Install(from, to, link): the set of outcomes [err, fs, fault].
\* filepath.Abs can fail (io = "err") before anything is written.
Install(fs, from, to, link, io) ==
  IF io = "err" THEN {[err |-> TRUE, fs |-> fs, fault |-> TRUE]}
  ELSE IF link THEN Symlink(fs, from, to)
  ELSE Copy(fs, from, to)

\* ------------------------------------------------------------------ run
\* run(cmd, args...): the external command.  It fails (leaving the output
\* path as it was, or a directory it had begun), or exits 0 having put a
\* directory at the output path.
run(fs, outputdir) ==
  {[err |-> TRUE, fs |-> fs]}
  \cup {[err |-> TRUE, fs |-> Write(fs, outputdir, Dir(t))] : t \in SUBSET Files}
  \cup {[err |-> FALSE, fs |-> Write(fs, outputdir, Dir(t))] : t \in SUBSET Files}

\* ---------------------------------------------- pre build: the guard
\* Mutant: with -f the path is left as it is.
guard_nothingRemoved(force, node, c, io) ==
  IF force
  THEN [err |-> (io = "err"), node |-> node]
  ELSE [err |-> (Stat(node, c, io) # "ENOENT"), node |-> node]

\* Mutant: os.RemoveAll(outputdir) also without -f, before the test.
guard_alwaysRemoves(force, node, c, io) ==
  IF force
  THEN (IF io = "err" THEN [err |-> TRUE, node |-> node]
        ELSE [err |-> FALSE, node |-> Absent])
  ELSE [err |-> (Stat(node, c, io) # "ENOENT"), node |-> Absent]

\* The pre-build block on outputdir: [err, node], node what the path holds
\* afterwards.  os.RemoveAll removes a link, not its target, and returns
\* nil for a path that does not exist; os.Stat follows links.
guard(force, node, c, io) ==
  IF force
  THEN (IF io = "err" THEN [err |-> TRUE, node |-> node]
        ELSE [err |-> FALSE, node |-> Absent])
  ELSE [err |-> (Stat(node, c, io) # "ENOENT"), node |-> node]

SetFS(fs) ==
  /\ dirs' = fs.dirs
  /\ cache' = fs.cache
  /\ out' = fs.out

main_guard(p) ==
  /\ pc[p] = "guard"
  /\ \E io \in IOResults :
       LET g == guard(arg[p].force, out[arg[p].outputdir], cache, io) IN
       /\ Step(p, "guard", io = "err")
       /\ out' = [out EXCEPT ![arg[p].outputdir] = g.node]
       /\ IF g.err
          THEN exitWith(p)
          ELSE /\ pc' = [pc EXCEPT ![p] = "IsDir"]
               /\ UNCHANGED loc
  /\ UNCHANGED <<envCACHE_DIR, dirs, cache, arg, gen, call>>

\* cached, err := IsDir(depDir), and the branch on cached
main_IsDir(p) ==
  /\ pc[p] = "IsDir"
  /\ \E io \in IOResults :
       LET r == IsDir(Stat(Read(FS, depDir(loc[p].cacheStore, loc[p].h)), cache, io)) IN
       /\ Step(p, "IsDir", io = "err")
       /\ IF r.err
          THEN exitWith(p)
          ELSE /\ loc' = [loc EXCEPT ![p].cached = r.ok]
               /\ pc' = [pc EXCEPT ![p] = IF r.ok THEN "Install" ELSE "run"]
  /\ UNCHANGED <<fsvars, arg, gen, call>>

\* Mutant: main returns whatever err is.
main_end_errorDropped(p, err) ==
  /\ pc' = [pc EXCEPT ![p] = "exited"]
  /\ loc' = [loc EXCEPT ![p].exit = 0]

\* The end of main(): exitWith(err) or a return.
main_end(p, err) ==
  /\ pc' = [pc EXCEPT ![p] = "exited"]
  /\ loc' = [loc EXCEPT ![p].exit = IF err THEN 1 ELSE 0]

\* err = Install(depDir, outputdir, *symlink)
main_Install(p) ==
  /\ pc[p] = "Install"
  /\ \E io \in IOResults :
     \E r \in Install(FS, depDir(loc[p].cacheStore, loc[p].h),
                      OutPath(arg[p].outputdir), arg[p].symlink, io) :
       /\ SetFS(r.fs)
       /\ Step(p, "Install", r.fault)
       /\ main_end(p, r.err)
  /\ UNCHANGED <<envCACHE_DIR, arg, gen, call>>

\* History: the tree the command generated for key h, recorded when Copy
\* of it into the cache returned nil.
Archived(g, h, r, src) ==
  IF r.err THEN g ELSE [g EXCEPT ![h] = [state |-> "cached", tree |-> src.tree]]

\* Mutant: the error of run not returned, the copy made all the same.
GenerateAndCache_run_errorIgnored(p) ==
  /\ pc[p] = "run"
  /\ \E r \in run(FS, OutPath(arg[p].outputdir)) :
       /\ SetFS(r.fs)
       /\ hist' = [hist EXCEPT ![p].trace = Append(@, "run"), ![p].cmdFailed = r.err]
       /\ pc' = [pc EXCEPT ![p] = "Copy"]
       /\ UNCHANGED loc
  /\ UNCHANGED <<envCACHE_DIR, arg, gen, call>>

\* GenerateAndCache, first half: err := run(cmd, args...)
GenerateAndCache_run(p) ==
  /\ pc[p] = "run"
  /\ \E r \in run(FS, OutPath(arg[p].outputdir)) :
       /\ SetFS(r.fs)
       /\ hist' = [hist EXCEPT ![p].trace = Append(@, "run"), ![p].cmdFailed = r.err]
       /\ IF r.err
          THEN main_end(p, TRUE)
          ELSE /\ pc' = [pc EXCEPT ![p] = "Copy"]
               /\ UNCHANGED loc
  /\ UNCHANGED <<envCACHE_DIR, arg, gen, call>>

\* Mutant: a return of nil in place of the copy.
GenerateAndCache_Copy_skipped(p) ==
  /\ pc[p] = "Copy"
  /\ Step(p, "Copy", FALSE)
  /\ main_end(p, FALSE)
  /\ gen' = [gen EXCEPT ![loc[p].h] =
                [state |-> "cached", tree |-> Read(FS, OutPath(arg[p].outputdir)).tree]]
  /\ UNCHANGED <<fsvars, arg, call>>

\* Mutant: the copy waits while another invocation generates or copies
\* for the same digest (a lock on the entry).
GenerateAndCache_Copy_locked(p) ==
  /\ pc[p] = "Copy"
  /\ \A q \in Procs \ {p} : ~(pc[q] \in {"run", "Copy"} /\ loc[q].h = loc[p].h)
  /\ \E r \in Copy(FS, OutPath(arg[p].outputdir), depDir(loc[p].cacheStore, loc[p].h)) :
       /\ SetFS(r.fs)
       /\ Step(p, "Copy", r.fault)
       /\ main_end(p, r.err)
       /\ gen' = Archived(gen, loc[p].h, r, Read(FS, OutPath(arg[p].outputdir)))
  /\ UNCHANGED <<envCACHE_DIR, arg, call>>

\* GenerateAndCache, second half: return Copy(outputdir, cache)
GenerateAndCache_Copy(p) ==
  /\ pc[p] = "Copy"
  /\ \E r \in Copy(FS, OutPath(arg[p].outputdir), depDir(loc[p].cacheStore, loc[p].h)) :
       /\ SetFS(r.fs)
       /\ Step(p, "Copy", r.fault)
       /\ main_end(p, r.err)
       /\ gen' = Archived(gen, loc[p].h, r, Read(FS, OutPath(arg[p].outputdir)))
  /\ UNCHANGED <<envCACHE_DIR, arg, call>>

\* --------------------------------------------------------- specification
\* The resolved cache root is absent, an empty directory, or a file; the
\* entry path of the first content can hold a stray file; an output path
\* is free, a file or a directory.  CACHE_DIR is not set here: InitCacheDir and InitRace
\* set it.
Init ==
  /\ envCACHE_DIR = ""
  /\ \E k \in {"absent", "dir", "file"} :
       dirs = [d \in CacheDirs |-> IF d = cacheDirPath("", envCACHE_DIR) THEN k ELSE "absent"]
  /\ cache \in [Keys -> {Absent, RegFile}]
  /\ (dirs[cacheDirPath("", envCACHE_DIR)] # "dir" => cache = [k \in Keys |-> Absent])
  /\ \A k \in Keys : cache[k] = RegFile => k = sha1Hex(1)
  /\ out \in [OutPaths -> {Absent, RegFile} \cup {Dir(t) : t \in SUBSET Files}]
  /\ out[OutPathOf(2)] = Absent
  /\ pc = [p \in Procs |-> "idle"]
  /\ arg = [p \in Procs |-> NoArg]
  /\ loc = [p \in Procs |-> NoLoc]
  /\ hist = [p \in Procs |-> NoHist]
  /\ gen = [k \in Keys |-> NoGen]
  /\ call = NoCall

main(p) ==
  \/ main_flagParse(p)
  \/ processExit(p)
  \/ main_cacheDir(p)
  \/ main_clean(p)
  \/ main_nargs(p)
  \/ main_hashFile(p)
  \/ main_guard(p)
  \/ main_IsDir(p)
  \/ main_Install(p)
  \/ GenerateAndCache_run(p)
  \/ GenerateAndCache_Copy(p)

\* One invocation at a time, each run to its exit before the next starts.
Next == main(1)

Spec == Init /\ [][Next]_vars

\* ------------------------------------------- cacheDir called on its own
\* cacheDir(dirName) for an empty and a non-empty dirName, with CACHE_DIR
\* set or not, each of the three paths absent, a directory or a file.
DirNames == {"", ExplicitDir}

InitCacheDir ==
  /\ envCACHE_DIR \in {"", EnvDir}
  /\ dirs \in [CacheDirs -> {"absent", "dir", "file"}]
  /\ call \in {[NoCall EXCEPT !.dirName = n, !.dirs0 = dirs] : n \in DirNames}
  /\ cache = [k \in Keys |-> Absent]
  /\ out = [o \in OutPaths |-> Absent]
  /\ pc = [p \in Procs |-> "idle"]
  /\ arg = [p \in Procs |-> NoArg]
  /\ loc = [p \in Procs |-> NoLoc]
  /\ hist = [p \in Procs |-> NoHist]
  /\ gen = [k \in Keys |-> NoGen]

\* dir, err := cacheDir(dirName)
cacheDir_call ==
  /\ ~call.done
  /\ \E io \in IOResults :
       LET r == cacheDir(call.dirName, envCACHE_DIR, dirs, io) IN
       /\ dirs' = r.dirs
       /\ call' = [call EXCEPT !.dir = r.dir, !.err = r.err,
                               !.fault = (io = "err"), !.done = TRUE]
  /\ UNCHANGED <<envCACHE_DIR, cache, out, pc, arg, loc, hist, gen>>

NextCacheDir == cacheDir_call
SpecCacheDir == InitCacheDir /\ [][NextCacheDir]_vars

\* ------------------------------------------- two invocations at once
\* Two invocations past flag.Parse() at the same time, each without -clean
\* and without -f, with a readable spec file and a free output path of its
\* own; the cache root is a directory with no entry, or is not there yet.
\* Their steps interleave in any order: the program takes no lock.
RaceArgs(p) ==
  { a \in Args : /\ a.prog = 1 /\ ~a.clean /\ ~a.force
                 /\ a.nargs = 3 /\ a.depDesc # 0
                 /\ a.outputdir = OutPathOf(p) }

InitRace ==
  /\ envCACHE_DIR \in {"", EnvDir}
  /\ \E k \in {"absent", "dir"} :
       dirs = [d \in CacheDirs |-> IF d = cacheDirPath("", envCACHE_DIR) THEN k ELSE "absent"]
  /\ cache = [k \in Keys |-> Absent]
  /\ out = [o \in OutPaths |-> Absent]
  /\ arg \in {a \in [Procs -> Args] : \A p \in Procs : a[p] \in RaceArgs(p)}
  /\ pc = [p \in Procs |-> main_entry]
  /\ loc = [p \in Procs |-> NoLoc]
  /\ hist = [p \in Procs |-> [NoHist EXCEPT !.dirs0 = dirs]]
  /\ gen = [k \in Keys |-> NoGen]
  /\ call = NoCall

NextRace ==
  \E p \in Procs :
    \/ main_cacheDir(p)
    \/ main_nargs(p)
    \/ main_hashFile(p)
    \/ main_guard(p)
    \/ main_IsDir(p)
    \/ main_Install(p)
    \/ GenerateAndCache_run(p)
    \/ GenerateAndCache_Copy(p)

SpecRace == InitRace /\ [][NextRace]_vars

\* ======================================================== the claims
\* What the formulas below read of an invocation.

Exited(p) == pc[p] = "exited"
Succeeded(p) == Exited(p) /\ loc[p].exit = 0
Did(p, name) == \E i \in DOMAIN hist[p].trace : hist[p].trace[i] = name
LastStep(p) == hist[p].trace[Len(hist[p].trace)]
Passed(p, name) == Did(p, name) /\ ~(Exited(p) /\ LastStep(p) = name /\ loc[p].exit = 1)
Before(p, a, b) ==
  \A j \in DOMAIN hist[p].trace :
    hist[p].trace[j] = b => \E i \in 1..(j - 1) : hist[p].trace[i] = a
Root == cacheDirPath("", envCACHE_DIR)
\* A run without -clean that names a readable spec file, and its digest.
Build(p) == ~arg[p].clean /\ arg[p].nargs >= 3 /\ arg[p].depDesc # 0
KeyOf(p) == sha1Hex(fileContent(arg[p].depDesc))
OutNode(p) == out[arg[p].outputdir]
SameTree(n, e) == n.kind = "dir" /\ e.kind = "dir" /\ n.tree = e.tree
\* The cache entry of the run's digest was a directory / was not there when
\* the run started.
HitAtStart(p) ==
  Build(p) /\ hist[p].dirs0[Root] = "dir" /\ hist[p].cache0[KeyOf(p)].kind = "dir"
MissAtStart(p) ==
  Build(p) /\ hist[p].cache0[KeyOf(p)].kind = "absent"
BuildSteps == {"hashFile", "guard", "IsDir", "Install", "run", "Copy"}

\* C1: at the exit with status 0 of a run without -clean, on the Install
\* path and on the GenerateAndCache path, the output path is a symbolic
\* link to the cache entry of the spec file's digest, or a directory with
\* the file tree of that entry; the entry is a directory of the cache root.
C1_OutputIsLinkOrCopy ==
  \A p \in Procs :
    (Succeeded(p) /\ ~arg[p].clean) =>
       /\ dirs[loc[p].cacheStore] = "dir"
       /\ cache[loc[p].h].kind = "dir"
       /\ \/ OutNode(p) = Link(loc[p].h)
          \/ SameTree(OutNode(p), cache[loc[p].h])

C1_Witness ==
  \E p \in Procs :
    /\ Succeeded(p) /\ ~arg[p].clean /\ ~arg[p].symlink
    /\ Did(p, "Install")
    /\ OutNode(p) = Dir(Files)
    /\ cache[loc[p].h] = Dir(Files)

\* C2: a run without -clean that starts with a directory at the cache
\* entry of its spec file's digest never invokes the external command, and
\* once the probe is over it is on the Install path.
C2_HitInstalls ==
  \A p \in Procs :
    HitAtStart(p) =>
       /\ ~Did(p, "run") /\ ~Did(p, "Copy")
       /\ pc[p] \notin {"run", "Copy"}
       /\ Passed(p, "IsDir") =>
            (loc[p].cached /\ (pc[p] = "Install" \/ Did(p, "Install")))

C2_Witness ==
  \E p \in Procs : HitAtStart(p) /\ Succeeded(p) /\ Did(p, "Install")

\* C3 as stated: a run without -clean that starts with no entry for its
\* digest is, once the probe is over, on the GenerateAndCache path (the
\* command is invoked, Install never), and when it ends the cache entry is
\* a directory.
C3_Original ==
  \A p \in Procs :
    MissAtStart(p) =>
       /\ ~Did(p, "Install") /\ pc[p] # "Install"
       /\ Passed(p, "IsDir") => (pc[p] = "run" \/ Did(p, "run"))
       /\ (Exited(p) /\ Passed(p, "IsDir")) => cache[loc[p].h].kind = "dir"

\* C3 as amended: ... and when it ends with status 0 the cache entry is a
\* directory.
C3_MissGeneratesAndCaches ==
  \A p \in Procs :
    MissAtStart(p) =>
       /\ ~Did(p, "Install") /\ pc[p] # "Install"
       /\ Passed(p, "IsDir") => (pc[p] = "run" \/ Did(p, "run"))
       /\ Succeeded(p) =>
            (Did(p, "run") /\ Did(p, "Copy") /\ cache[loc[p].h].kind = "dir")

C3_Witness ==
  \E p \in Procs :
    MissAtStart(p) /\ Succeeded(p) /\ Did(p, "Copy") /\ cache[loc[p].h] = Dir(Files)

\* C4 as stated: after a run without -clean that exits 0, hit or miss: with
\* -symlink the output path is a symbolic link to the cache entry, without
\* it a plain directory with the entry's file tree.
C4_Original ==
  \A p \in Procs :
    (Succeeded(p) /\ ~arg[p].clean) =>
       IF arg[p].symlink
       THEN OutNode(p) = Link(loc[p].h) /\ cache[loc[p].h].kind = "dir"
       ELSE SameTree(OutNode(p), cache[loc[p].h])

\* C4 as amended: that holds after a cache hit; after a cache miss the
\* output path is a plain directory with the entry's file tree, whatever
\* -symlink says.
C4_SymlinkOnHitOnly ==
  \A p \in Procs :
    (Succeeded(p) /\ ~arg[p].clean) =>
       IF loc[p].cached /\ arg[p].symlink
       THEN OutNode(p) = Link(loc[p].h) /\ cache[loc[p].h].kind = "dir"
       ELSE SameTree(OutNode(p), cache[loc[p].h])

C4_Witness ==
  \E p \in Procs :
    /\ Succeeded(p) /\ ~arg[p].clean /\ arg[p].symlink
    /\ ~loc[p].cached /\ Did(p, "Copy")
    /\ OutNode(p).kind = "dir"

\* C5: in a run without -f and without -clean, when anything is at the
\* output path as the guard runs (a file, a directory, a symbolic link,
\* dangling or not), the run exits non-zero before the cache is probed,
\* before the command is invoked and before the cache or the output path
\* is written.
C5_GuardRejectsExisting ==
  \A p \in Procs :
    (Build(p) /\ ~arg[p].force /\ hist[p].out0[arg[p].outputdir].kind # "absent") =>
       /\ hist[p].trace \in {<<>>, <<"cacheDir">>, <<"nargs">>, <<"cacheDir", "nargs">>,
                             <<"nargs", "cacheDir">>, <<"cacheDir", "nargs", "hashFile">>,
                             <<"nargs", "cacheDir", "hashFile">>,
                             <<"cacheDir", "nargs", "hashFile", "guard">>,
                             <<"nargs", "cacheDir", "hashFile", "guard">>}
       /\ Did(p, "guard") => (Exited(p) /\ loc[p].exit = 1)
       /\ cache = hist[p].cache0 /\ out = hist[p].out0

\* C6: in a run with -f the guard empties the output path before the probe
\* and before Install or GenerateAndCache: nothing is at the output path
\* from the guard to the build step, and an output path that was not there
\* is no error.
C6_ForceRemovesFirst ==
  \A p \in Procs :
    (Build(p) /\ arg[p].force) =>
       /\ pc[p] \in {"IsDir", "Install", "run"} => OutNode(p) = Absent
       /\ Before(p, "guard", "IsDir") /\ Before(p, "guard", "Install")
       /\ Before(p, "guard", "run")
       /\ (Did(p, "guard") /\ ~hist[p].faulted) => Passed(p, "guard")

C6_Witness ==
  \E p \in Procs :
    /\ Build(p) /\ arg[p].force /\ pc[p] \in {"Install", "run"}
    /\ hist[p].out0[arg[p].outputdir].kind # "absent"
    /\ OutNode(p) = Absent

\* C7: when the external command fails, the run exits non-zero, the
\* archival copy is not executed, and the cache entries are those of the
\* start of the run, with their contents.
C7_FailedCommandLeavesCache ==
  \A p \in Procs :
    hist[p].cmdFailed =>
       /\ Exited(p) /\ loc[p].exit = 1
       /\ ~Did(p, "Copy")
       /\ cache = hist[p].cache0

C7_Witness ==
  \E p \in Procs :
    /\ hist[p].cmdFailed /\ Exited(p)
    /\ \E k \in Keys : cache[k].kind = "dir"

\* C8: after a -clean that exits 0 no cache entry is left, and the next run
\* for a spec file whose digest had an entry probes a miss and runs the
\* command, never Install.
C8_CleanForcesRegeneration ==
  \A p \in Procs :
    /\ (Succeeded(p) /\ arg[p].clean) =>
          (dirs[loc[p].cacheStore] = "absent" /\ \A k \in Keys : cache[k] = Absent)
    /\ (hist[p].afterClean /\ Build(p) /\ KeyOf(p) \in hist[p].wiped) =>
          /\ ~Did(p, "Install") /\ pc[p] # "Install"
          /\ Passed(p, "IsDir") => (~loc[p].cached /\ (pc[p] = "run" \/ Did(p, "run")))

C8_Witness ==
  \E p \in Procs :
    /\ hist[p].afterClean /\ Build(p) /\ KeyOf(p) \in hist[p].wiped
    /\ Did(p, "run") /\ Succeeded(p)

\* C9: with -clean, for any number of positional arguments, the run removes
\* the cache root and exits 0 (a cache root path that holds a file, or a
\* failing system call, aside), and it neither hashes, nor touches the
\* output path, nor probes, installs or invokes the command.
C9_CleanIgnoresArguments ==
  \A p \in Procs :
    arg[p].clean =>
       /\ \A i \in DOMAIN hist[p].trace : hist[p].trace[i] \notin BuildSteps
       /\ out = hist[p].out0
       /\ (Exited(p) /\ ~hist[p].faulted /\ hist[p].dirs0[Root] # "file") =>
            (loc[p].exit = 0 /\ dirs[Root] = "absent")

\* C10: -clean on an empty or absent cache root exits 0 (a failing system
\* call aside), and a -clean right after a -clean leaves the filesystem as
\* the first one left it.
C10_CleanIdempotent ==
  \A p \in Procs :
    (arg[p].clean /\ Exited(p)) =>
       /\ (~hist[p].faulted /\ hist[p].dirs0[Root] # "file"
             /\ \A k \in Keys : hist[p].cache0[k] = Absent) => loc[p].exit = 0
       /\ (hist[p].afterClean /\ ~hist[p].faulted) =>
            (loc[p].exit = 0 /\ dirs = hist[p].dirs0 /\ cache = hist[p].cache0
               /\ out = hist[p].out0)

\* C11: in a step of a run without -clean, every cache entry that is a
\* directory stays, with the tree it has: a hit only reads it, -f on an
\* output path that is a link to it removes the link alone, and a miss for
\* another digest only adds an entry.
C11_EntriesPersist ==
  [][(\A p \in Procs : ~arg[p].clean /\ ~arg'[p].clean) =>
       \A k \in Keys : cache[k].kind = "dir" => cache'[k] = cache[k]]_vars

C11_Witness ==
  \E p \in Procs : \E k \in Keys :
    /\ Build(p) /\ arg[p].force /\ Passed(p, "guard")
    /\ hist[p].cache0[k].kind = "dir" /\ hist[p].cache0[k].tree # {}
    /\ hist[p].out0[arg[p].outputdir] = Link(k)
    /\ OutNode(p) = Absent
    /\ cache[k] = hist[p].cache0[k]

\* What makes a step fail, told from the arguments and from the filesystem
\* the run found, not from what the step returned.
Fails(p, name) ==
  LET o == arg[p].outputdir IN
  CASE name = "nargs" -> arg[p].nargs < 3
    [] name = "cacheDir" -> hist[p].dirs0[Root] = "file"
    [] name = "hashFile" -> arg[p].depDesc = 0
    [] name = "guard" ->
         ~arg[p].force /\ Stat(hist[p].out0[o], hist[p].cache0, "ok") # "ENOENT"
    [] name = "Install" -> ~arg[p].force /\ hist[p].out0[o].kind # "absent"
    [] name = "run" -> hist[p].cmdFailed
    [] name = "Copy" -> hist[p].cache0[KeyOf(p)].kind = "file"
    [] OTHER -> FALSE

\* C12: a step that fails (too few arguments, a cache root that is a file,
\* an unreadable spec file, an output path the guard rejects, a failing
\* system call anywhere, an output path Install cannot write, a failed
\* command, an entry path cp cannot write) is the last step of the run
\* and the run has exited with status 1; a run exits with status 0 only
\* at the end of a path (clean, Install, Copy) none of whose steps failed.
C12_FailureEndsRun ==
  \A p \in Procs :
    /\ \A i \in DOMAIN hist[p].trace :
         Fails(p, hist[p].trace[i]) =>
           (Exited(p) /\ loc[p].exit = 1 /\ i = Len(hist[p].trace))
    /\ hist[p].faulted => (Exited(p) /\ loc[p].exit = 1)
    /\ Succeeded(p) =>
         /\ LastStep(p) \in {"clean", "Install", "Copy"}
         /\ ~hist[p].faulted /\ ~hist[p].cmdFailed
         /\ \A i \in DOMAIN hist[p].trace : ~Fails(p, hist[p].trace[i])

C12_Witness ==
  \E p \in Procs :
    /\ Build(p) /\ Did(p, "Copy") /\ Fails(p, "Copy") /\ ~hist[p].faulted
    /\ Exited(p) /\ loc[p].exit = 1

\* C13: once a run has generated a directory for a digest and archived it
\* with exit status 0, a run for a spec file of the same content, with no
\* -clean in between, is never about to invoke the command (gen changes
\* at Copy only, so a run that stands at run with gen "cached" is a later
\* run), and when it exits 0 the output path is a link to the entry, which
\* holds the tree the command generated, or a directory with that tree.
C13_RoundTrip ==
  \A p \in Procs :
    (Build(p) /\ gen[KeyOf(p)].state = "cached") =>
       /\ pc[p] # "run"
       /\ Succeeded(p) =>
            LET generated == Dir(gen[KeyOf(p)].tree) IN
            \/ OutNode(p) = generated
            \/ OutNode(p) = Link(KeyOf(p)) /\ cache[KeyOf(p)] = generated

C13_Witness ==
  \E p \in Procs :
    /\ Build(p) /\ gen[KeyOf(p)].state = "cached"
    /\ gen[KeyOf(p)].tree # {}
    /\ ~arg[p].force /\ ~arg[p].symlink /\ Succeeded(p)
    /\ Did(p, "Install") /\ ~Did(p, "run")
    /\ OutNode(p) = Dir(gen[KeyOf(p)].tree)

\* C14: every cache entry that is a directory, which is what the probe
\* reports as a hit, holds the whole tree that a command generated for its
\* digest, also after a run whose cp -R into the cache failed part way.
C14_HitsAreFullCopies ==
  \A k \in Keys :
    cache[k].kind = "dir" =>
      (gen[k].state = "cached" /\ cache[k].tree = gen[k].tree)

\* The steps of a run but the test of flag.NArg(), whose place differs
\* between the two programs, and the two orders a run without -clean goes
\* through.
StepsOf(p) == SelectSeq(hist[p].trace, LAMBDA n : n # "nargs")
InstallPath == <<"cacheDir", "hashFile", "guard", "IsDir", "Install">>
GeneratePath == <<"cacheDir", "hashFile", "guard", "IsDir", "run", "Copy">>
IsPrefix(s, t) == Len(s) <= Len(t) /\ \A i \in 1..Len(s) : s[i] = t[i]

\* C15: the steps of a run without -clean are, in this order, cacheDir,
\* hashFile, the guard, the probe, then Install or else run and Copy, each
\* at most once; the command is invoked only when the guard has passed and
\* the probe has reported a miss, and Copy only when the command exited 0;
\* a run that exits 0 has done exactly one of Install and run.
C15_StepOrder ==
  \A p \in Procs :
    ~arg[p].clean =>
       /\ IsPrefix(StepsOf(p), InstallPath) \/ IsPrefix(StepsOf(p), GeneratePath)
       /\ (pc[p] = "run" \/ Did(p, "run")) =>
            (Passed(p, "guard") /\ Passed(p, "IsDir") /\ ~loc[p].cached)
       /\ (pc[p] = "Copy" \/ Did(p, "Copy")) =>
            (Did(p, "run") /\ ~hist[p].cmdFailed)
       /\ Succeeded(p) => (Did(p, "Install") # Did(p, "run"))

C15_Witness ==
  \E p \in Procs :
    /\ arg[p].prog = 2 /\ ~arg[p].clean /\ Succeeded(p)
    /\ StepsOf(p) = GeneratePath

\* What the probe of a run finds at the entry path: no step before the
\* probe writes there.
ProbedKind(p) == hist[p].cache0[KeyOf(p)].kind
ProbeReturned(p) ==
  /\ (LastStep(p) = "IsDir" /\ hist[p].faulted) => (Exited(p) /\ loc[p].exit = 1)
  /\ (LastStep(p) = "IsDir" /\ Exited(p)) => hist[p].faulted
  /\ Passed(p, "IsDir") => (loc[p].cached <=> ProbedKind(p) = "dir")

\* C18 as stated: IsDir returns (true, nil) exactly for a directory,
\* (false, nil) exactly for a path that does not exist and an error
\* otherwise, so a probe that reports a miss found nothing at the path.
C18_Original ==
  \A p \in Procs :
    Did(p, "IsDir") =>
       /\ ProbeReturned(p)
       /\ (Passed(p, "IsDir") /\ ~loc[p].cached) => ProbedKind(p) = "absent"

\* C18: IsDir returns an error exactly when os.Stat fails otherwise than
\* with "not exist", (true, nil) exactly for a directory, and (false, nil)
\* for a path that does not exist or is not a directory: main takes both
\* for a miss.
C18_IsDirContract ==
  \A p \in Procs :
    Did(p, "IsDir") =>
       /\ ProbeReturned(p)
       /\ (Passed(p, "IsDir") /\ ~loc[p].cached) => ProbedKind(p) \in {"absent", "file"}
       /\ (Passed(p, "IsDir") /\ ~loc[p].cached) => pc[p] = "run" \/ Did(p, "run")

C18_Witness ==
  \E p \in Procs :
    /\ Passed(p, "IsDir") /\ ProbedKind(p) = "file"
    /\ ~loc[p].cached /\ pc[p] = "run"

\* The run ended in error at the test of flag.NArg(), at hashFile, or at
\* the guard without -f.
EarlyError(p) ==
  /\ Exited(p) /\ loc[p].exit = 1
  /\ \/ LastStep(p) \in {"nargs", "hashFile"}
     \/ LastStep(p) = "guard" /\ ~arg[p].force

\* C19: a run that ends in error at the argument check, at the hash of the
\* spec file or at the guard without -f leaves every cache entry and the
\* output path as the run found them; of the cache roots only the resolved
\* one can differ, created where it was missing.
C19_EarlyErrorFrame ==
  \A p \in Procs :
    EarlyError(p) =>
       /\ cache = hist[p].cache0
       /\ out = hist[p].out0
       /\ \A d \in CacheDirs :
            \/ dirs[d] = hist[p].dirs0[d]
            \/ d = Root /\ hist[p].dirs0[d] = "absent" /\ dirs[d] = "dir"

C19_Witness ==
  \E p \in Procs :
    /\ EarlyError(p) /\ LastStep(p) = "guard"
    /\ hist[p].out0[arg[p].outputdir].kind = "dir"
    /\ hist[p].dirs0[Root] = "absent" /\ dirs[Root] = "dir"

\* The path the resolution order of the documentation gives.
Resolved(dirName, env) ==
  IF dirName # "" THEN dirName
  ELSE IF env # "" THEN env
  ELSE HomeDepCache

\* C17: cacheDir(dirName) settles on dirName when it is not empty, else on
\* CACHE_DIR when it is not empty, else on <home>/.dep-cache; when it
\* returns no error the path returned is that one and is a directory, and
\* it returns an error when that path holds something that is not a
\* directory.
C17_CacheDirResolution ==
  call.done =>
    LET d == Resolved(call.dirName, envCACHE_DIR) IN
    /\ ~call.err => (call.dir = d /\ dirs[call.dir] = "dir")
    /\ call.dirs0[d] = "file" => call.err

\* Two invocations for spec files of the same content, each with an output
\* path of its own, that both probed a miss.
BothMissed(p, q) ==
  /\ p # q /\ Build(p) /\ Build(q) /\ KeyOf(p) = KeyOf(q)
  /\ arg[p].outputdir # arg[q].outputdir
  /\ Passed(p, "IsDir") /\ ~loc[p].cached
  /\ Passed(q, "IsDir") /\ ~loc[q].cached

\* C16: when two invocations at once, for the same content and with
\* output paths of their own, have both probed a miss, nothing holds
\* either back: each one's invocation of the command, and then its cp -R
\* into the one entry path, can be taken whatever the other is at; when
\* both copies return nil the second has gone into the directory the first
\* made, which then holds a sub-directory beside the first one's files.
C16_NoExclusion ==
  \A p, q \in Procs :
    BothMissed(p, q) =>
       /\ pc[p] = "run" => ENABLED GenerateAndCache_run(p)
       /\ pc[p] = "Copy" => ENABLED GenerateAndCache_Copy(p)
       /\ (Succeeded(p) /\ Succeeded(q)) =>
            (Did(p, "Copy") /\ Did(q, "Copy") /\ NestedDir \in cache[KeyOf(p)].tree)

C16_Witness ==
  \E p, q \in Procs :
    /\ BothMissed(p, q)
    /\ hist[p].cache0[KeyOf(p)] = Absent /\ hist[q].cache0[KeyOf(q)] = Absent
    /\ Did(p, "run") /\ Did(q, "run") /\ Did(p, "Copy") /\ Did(q, "Copy")
    /\ Succeeded(p) /\ Succeeded(q)
    /\ cache[KeyOf(p)].kind = "dir"

====
